---- MODULE Spec2Model ----
(***************************************************************************)
(* Model of app/frontend.py, the Streamlit client of the Simple Social     *)
(* backend.  The script is re-run from its first line on every user        *)
(* interaction and on every st.rerun().  One run is modelled as two steps: *)
(* RenderTop (lines 15-48: session initialisation, token restore from the  *)
(* query parameters, render-time identity fetch) and one of the main-logic *)
(* steps (lines 213-232), which selects the screen and runs the handler of *)
(* the widget the user acted on.  The backend is the environment: every    *)
(* request draws its outcome from a small set.                              *)
(***************************************************************************)
EXTENDS Integers, Sequences, FiniteSets, TLC

\* ---------------------------------------------------------------- bounds
NumTokens == 2
NumUsers == 2
MaxPosts == 2

None == 0
Tokens == 1..NumTokens
Users == 1..NumUsers
PostIds == 1..MaxPosts

VARIABLES
    token,      \* st.session_state.token (lines 15-16): None or a bearer token
    user,       \* st.session_state.user (lines 17-18): None or the backend's identity
    failed,     \* st.session_state.last_token_check_failed (lines 19-20)
    carrier,    \* the 'token' query parameter of the URL (lines 23, 44, 103, 223)
    pc,         \* "top": a run is about to start; "main": lines 15-48 of the run are done
    rerun,      \* st.rerun() was raised: the next run is forced and carries no click
    screen,     \* branch of line 213 taken by the last run: "none", "login", "shell"
    page,       \* value of the sidebar radio: "feed" or "upload"
    filled,     \* both text inputs of login_page are non-empty
    hasFile,    \* the file uploader of upload_page holds a file
    buttons,    \* buttons the last run rendered (other than the delete buttons)
    offered,    \* ids of the posts the last run rendered a delete button for
    posts,      \* the feed of the last run: post id -> is_owner ("true", "false", "missing")
    calls,      \* backend requests issued by the current run, in order
    msgs,       \* st.error / st.success / st.info messages of the current run
    crashed,    \* an exception left the script uncaught in the current run
    ev          \* the step that produced this state

\* The arguments and the result of one call of create_transformed_url
\* (lines 60-75), as feed_page makes it for every post (lines 198, 201).
VARIABLES
    u_url,      \* original_url: a sequence of characters
    u_tr,       \* transformation_params: None or a sequence of characters
    u_cap,      \* caption: None or a sequence of code points
    u_out,      \* the returned url
    u_done      \* the call has returned

urlVars == <<u_url, u_tr, u_cap, u_out, u_done>>

sessionVars == <<token, user, failed, carrier, pc, rerun, screen, page, filled, hasFile,
                 buttons, offered, posts, calls, msgs, crashed, ev>>

vars == <<token, user, failed, carrier, pc, rerun, screen, page, filled, hasFile,
          buttons, offered, posts, calls, msgs, crashed, ev,
          u_url, u_tr, u_cap, u_out, u_done>>

\* The state as one record, the form the handlers below work on.
Cur ==
    [token |-> token, user |-> user, failed |-> failed, carrier |-> carrier,
     rerun |-> rerun, screen |-> screen, page |-> page, filled |-> filled,
     hasFile |-> hasFile, buttons |-> buttons, offered |-> offered, posts |-> posts,
     calls |-> calls, msgs |-> msgs, crashed |-> crashed]

Set(s) ==
    /\ token' = s.token
    /\ user' = s.user
    /\ failed' = s.failed
    /\ carrier' = s.carrier
    /\ rerun' = s.rerun
    /\ screen' = s.screen
    /\ page' = s.page
    /\ filled' = s.filled
    /\ hasFile' = s.hasFile
    /\ buttons' = s.buttons
    /\ offered' = s.offered
    /\ posts' = s.posts
    /\ calls' = s.calls
    /\ msgs' = s.msgs
    /\ crashed' = s.crashed
    /\ UNCHANGED urlVars

NoPosts == [p \in {} |-> "false"]

\* ------------------------------------------------------- backend outcomes
\* status: "ok" (the success status of the endpoint), "fail" (any other
\* status), "exc" (requests raised: connection error or timeout).
\* ret: the token / identity of a successful body, None otherwise.
LoginOutcomes ==
    {[status |-> "ok", ret |-> t] : t \in Tokens}
        \cup {[status |-> "fail", ret |-> None], [status |-> "exc", ret |-> None]}

MeOutcomes ==
    {[status |-> "ok", ret |-> u] : u \in Users}
        \cup {[status |-> "fail", ret |-> None], [status |-> "exc", ret |-> None]}

PlainOutcomes ==
    {[status |-> st, ret |-> None] : st \in {"ok", "fail", "exc"}}

Feeds == UNION {[S -> {"true", "false", "missing"}] : S \in SUBSET PostIds}

FeedOutcomes ==
    {[status |-> "ok", posts |-> f] : f \in Feeds}
        \cup {[status |-> "fail", posts |-> NoPosts], [status |-> "exc", posts |-> NoPosts]}

\* ------------------------------------------------------------- helpers
\* get_headers: the bearer token sent with a request (None: no header).
GetHeaders(s) == s.token

\* One request as it is issued: endpoint, call site, the bearer token sent,
\* the session's user and failure flag at that moment, the outcome, and the
\* post id of a delete.
Request(s, ep, site, bearer, o, arg) ==
    [ep |-> ep, site |-> site, tok |-> bearer, usr |-> s.user, flag |-> s.failed,
     status |-> o.status, ret |-> o.ret, arg |-> arg]

Issue(s, ep, site, bearer, o, arg) ==
    [s EXCEPT !.calls = Append(s.calls, Request(s, ep, site, bearer, o, arg))]

Say(s, m) == [s EXCEPT !.msgs = s.msgs \cup {m}]

\* ------------------------------------------------- lines 15-48 of a run
\* A browser session that has not run the script yet has an empty
\* session_state; lines 15-20 fill it in.
FreshSession == [token |-> None, user |-> None, failed |-> FALSE]

\* Lines 22-25 left out: the URL's token is never read back.
RestoreToken_Never(s) == s

\* Lines 22-25.
RestoreToken(s) ==
    IF s.token = None /\ s.carrier # None
    THEN [s EXCEPT !.token = s.carrier]
    ELSE s

\* Reconcile without line 44: an invalid token is left in the URL.
Reconcile_KeepCarrier(s, o) ==
    IF s.token # None /\ s.user = None /\ ~s.failed
    THEN LET s1 == Issue(s, "me", "render", GetHeaders(s), o, None)
         IN  CASE o.status = "ok" -> [s1 EXCEPT !.user = o.ret]
               [] o.status = "fail" ->
                    [s1 EXCEPT !.token = None, !.user = None, !.failed = TRUE]
               [] OTHER -> [s1 EXCEPT !.failed = TRUE]
    ELSE s

\* Reconcile whose except branch (line 48) is a bare pass.
Reconcile_NoFlagOnError(s, o) ==
    IF s.token # None /\ s.user = None /\ ~s.failed
    THEN LET s1 == Issue(s, "me", "render", GetHeaders(s), o, None)
         IN  CASE o.status = "ok" -> [s1 EXCEPT !.user = o.ret]
               [] o.status = "fail" ->
                    [s1 EXCEPT !.token = None, !.user = None,
                               !.carrier = None, !.failed = TRUE]
               [] OTHER -> s1
    ELSE s

\* Lines 35-48.
Reconcile(s, o) ==
    IF s.token # None /\ s.user = None /\ ~s.failed
    THEN LET s1 == Issue(s, "me", "render", GetHeaders(s), o, None)
         IN  CASE o.status = "ok" -> [s1 EXCEPT !.user = o.ret]
               [] o.status = "fail" ->
                    [s1 EXCEPT !.token = None, !.user = None,
                               !.carrier = None, !.failed = TRUE]
               [] OTHER -> [s1 EXCEPT !.failed = TRUE]
    ELSE s

\* ------------------------------------------------------------ login_page
RegisterOutcomes ==
    {[status |-> st, ret |-> None] : st \in {"ok", "fail", "failraw", "exc"}}

\* The Login handler without line 103: the token is not written to the URL.
LoginHandler_NoPersist(s, po, go) ==
    LET s0 == Issue(s, "login", "login_page", None, po, None)
    IN  CASE po.status = "exc" ->
                [Say(s0, "cannot_contact") EXCEPT !.buttons = {"login"}]
          [] po.status = "ok" ->
                LET s1 == [s0 EXCEPT !.token = po.ret]
                    s2 == Issue(s1, "me", "login_page", GetHeaders(s1), go, None)
                IN  CASE go.status = "ok" ->
                            [s2 EXCEPT !.user = go.ret, !.rerun = TRUE,
                                       !.buttons = {"login"}]
                      [] go.status = "fail" -> Say(s2, "userinfo_failed")
                      [] OTHER -> [s2 EXCEPT !.crashed = TRUE, !.buttons = {"login"}]
          [] OTHER -> Say(s0, "invalid_credentials")

\* The Login handler resetting the session on a rejected credential POST.
LoginHandler_ClearOnInvalid(s, po, go) ==
    LET s0 == Issue(s, "login", "login_page", None, po, None)
    IN  CASE po.status = "exc" ->
                [Say(s0, "cannot_contact") EXCEPT !.buttons = {"login"}]
          [] po.status = "ok" ->
                LET s1 == [s0 EXCEPT !.token = po.ret, !.carrier = po.ret]
                    s2 == Issue(s1, "me", "login_page", GetHeaders(s1), go, None)
                IN  CASE go.status = "ok" ->
                            [s2 EXCEPT !.user = go.ret, !.rerun = TRUE,
                                       !.buttons = {"login"}]
                      [] go.status = "fail" -> Say(s2, "userinfo_failed")
                      [] OTHER -> [s2 EXCEPT !.crashed = TRUE, !.buttons = {"login"}]
          [] OTHER ->
                [Say(s0, "invalid_credentials") EXCEPT !.token = None, !.carrier = None]

\* Lines 90-113: the Login button's handler.  The Login button (col1) is
\* rendered before the handler runs, the Sign Up button (col2) after it, so
\* a run the handler leaves early (return, st.rerun, an uncaught exception)
\* has rendered the Login button alone.
LoginHandler(s, po, go) ==
    LET s0 == Issue(s, "login", "login_page", None, po, None)
    IN  CASE po.status = "exc" ->
                [Say(s0, "cannot_contact") EXCEPT !.buttons = {"login"}]
          [] po.status = "ok" ->
                LET s1 == [s0 EXCEPT !.token = po.ret, !.carrier = po.ret]
                    s2 == Issue(s1, "me", "login_page", GetHeaders(s1), go, None)
                IN  CASE go.status = "ok" ->
                            [s2 EXCEPT !.user = go.ret, !.rerun = TRUE,
                                       !.buttons = {"login"}]
                      [] go.status = "fail" -> Say(s2, "userinfo_failed")
                      [] OTHER -> [s2 EXCEPT !.crashed = TRUE, !.buttons = {"login"}]
          [] OTHER -> Say(s0, "invalid_credentials")

\* The Sign Up handler dropping the session's stale token on a 201.
SignupHandler_DropsToken(s, o) ==
    LET s0 == Issue(s, "register", "login_page", None, o, None)
    IN  CASE o.status = "exc" -> Say(s0, "cannot_contact")
          [] o.status = "ok" ->
                [Say(s0, "account_created") EXCEPT !.token = None, !.carrier = None]
          [] o.status = "fail" -> Say(s0, "registration_failed_detail")
          [] OTHER -> Say(s0, "registration_failed")

\* Lines 116-131: the Sign Up button's handler.
SignupHandler(s, o) ==
    LET s0 == Issue(s, "register", "login_page", None, o, None)
    IN  CASE o.status = "exc" -> Say(s0, "cannot_contact")
          [] o.status = "ok" -> Say(s0, "account_created")
          [] o.status = "fail" -> Say(s0, "registration_failed_detail")
          [] OTHER -> Say(s0, "registration_failed")

\* Lines 80-88 and 132-133: login_page up to its buttons.  A complete run
\* that does not render the sidebar radio and the uploader drops their
\* widget state.
LoginPage(s, f) ==
    LET s0 == [s EXCEPT !.screen = "login", !.filled = f, !.page = "feed",
                        !.hasFile = FALSE, !.posts = NoPosts, !.offered = {},
                        !.buttons = IF f THEN {"login", "signup"} ELSE {}]
    IN  IF f THEN s0 ELSE Say(s0, "enter_credentials")

\* --------------------------------------------------- authenticated shell
\* Logout without line 223: the token stays in the URL.
LogoutHandler_KeepCarrier(s) ==
    [s EXCEPT !.user = None, !.token = None, !.rerun = TRUE]

\* Logout without line 221: the cached identity survives.
LogoutHandler_KeepUser(s) ==
    [s EXCEPT !.token = None, !.carrier = None, !.rerun = TRUE]

\* Lines 219-224: the Logout button's handler.
LogoutHandler(s) ==
    [s EXCEPT !.user = None, !.token = None, !.carrier = None, !.rerun = TRUE]

\* Line 182 with the default reversed: post.get('is_owner', True).
IsOwner_DefaultTrue(f, p) == p \in DOMAIN f /\ f[p] \in {"true", "missing"}

\* post.get('is_owner', False), line 182.
IsOwner(f, p) == p \in DOMAIN f /\ f[p] = "true"

\* Lines 161-208: feed_page; clicked is the post whose delete button the
\* user pressed (None: no click).  The feed is rendered in id order, and
\* st.rerun() after a successful delete ends the loop at the deleted post.
FeedPage(s, fo, clicked, do) ==
    LET s0 == Issue(s, "feed", "feed_page", GetHeaders(s),
                    [status |-> fo.status, ret |-> None], None)
        owned == {p \in DOMAIN fo.posts : IsOwner(fo.posts, p)}
        s1 == [s0 EXCEPT !.posts = fo.posts, !.offered = owned]
    IN  CASE fo.status = "exc" -> Say(s0, "feed_unreachable")
          [] fo.status = "fail" -> Say(s0, "feed_failed")
          [] DOMAIN fo.posts = {} -> Say(s1, "no_posts")
          [] clicked \in owned ->
                LET s2 == Issue(s1, "delete", "feed_page", GetHeaders(s1), do, clicked)
                IN  CASE do.status = "exc" -> Say(s2, "delete_unreachable")
                      [] do.status = "ok" ->
                            [Say(s2, "deleted") EXCEPT
                                !.rerun = TRUE,
                                !.offered = {p \in owned : p <= clicked}]
                      [] OTHER -> Say(s2, "delete_failed")
          [] OTHER -> s1

\* Lines 135-159: upload_page; share: the Share button was pressed.
UploadPage(s, share, o) ==
    LET s0 == [s EXCEPT !.buttons = IF s.hasFile THEN s.buttons \cup {"share"}
                                    ELSE s.buttons]
    IN  IF s.hasFile /\ share
        THEN LET s1 == Issue(s0, "upload", "upload_page", GetHeaders(s0), o, None)
             IN  CASE o.status = "exc" -> Say(s1, "upload_unreachable")
                   [] o.status = "ok" -> [Say(s1, "posted") EXCEPT !.rerun = TRUE]
                   [] OTHER -> Say(s1, "upload_failed")
        ELSE s0

\* Lines 216-227 without the Logout handler: the sidebar, with the radio at pg.
Shell(s, pg) ==
    [s EXCEPT !.screen = "shell", !.page = pg, !.filled = FALSE,
              !.buttons = {"logout"}, !.posts = NoPosts, !.offered = {}]

\* --------------------------------------------------------------- actions
\* Line 213 testing the token instead of the user.
ShowLogin_ByToken(s) == s.token = None

\* Line 213: the login screen is selected when the session has no user.
ShowLogin(s) == s.user = None

\* The state a run starts from: the pending st.rerun() is consumed and the
\* run's own output is empty.
Begin(s) == [s EXCEPT !.rerun = FALSE]

\* The user may act on a widget only if the previous run rendered it and
\* this run is not one forced by st.rerun().
MayAct == ~rerun

\* A page load (first visit, browser reload, or an edited URL): a new
\* browser session, whose session_state lines 15-20 initialise, with the
\* 'token' query parameter c.
Load(c) ==
    /\ Set([token |-> FreshSession.token, user |-> FreshSession.user,
            failed |-> FreshSession.failed, carrier |-> c, rerun |-> FALSE,
            screen |-> "none", page |-> "feed", filled |-> FALSE, hasFile |-> FALSE,
            buttons |-> {}, offered |-> {}, posts |-> NoPosts, calls |-> <<>>,
            msgs |-> {}, crashed |-> FALSE])
    /\ pc' = "top"
    /\ ev' = "load"

\* Lines 15-48 of a run.
RenderTop(o) ==
    /\ pc = "top"
    /\ Set(Reconcile(RestoreToken([Cur EXCEPT !.calls = <<>>, !.msgs = {},
                                              !.crashed = FALSE]), o))
    /\ pc' = "main"
    /\ ev' = "top"

\* Line 213, user is None: login_page with no button pressed (f: the text
\* inputs as the user left them).
LoginRender(f) ==
    /\ pc = "main" /\ ShowLogin(Cur)
    /\ (f # filled) => (MayAct /\ screen = "login")
    /\ Set(LoginPage(Begin(Cur), f))
    /\ pc' = "top"
    /\ ev' = "login_render"

LoginClick(po, go) ==
    /\ pc = "main" /\ ShowLogin(Cur)
    /\ MayAct /\ "login" \in buttons /\ filled
    /\ Set(LoginHandler(LoginPage(Begin(Cur), filled), po, go))
    /\ pc' = "top"
    /\ ev' = "login"

SignupClick(o) ==
    /\ pc = "main" /\ ShowLogin(Cur)
    /\ MayAct /\ "signup" \in buttons /\ filled
    /\ Set(SignupHandler(LoginPage(Begin(Cur), filled), o))
    /\ pc' = "top"
    /\ ev' = "signup"

LogoutClick ==
    /\ pc = "main" /\ ~ShowLogin(Cur)
    /\ MayAct /\ "logout" \in buttons
    /\ Set(LogoutHandler(Shell(Begin(Cur), page)))
    /\ pc' = "top"
    /\ ev' = "logout"

\* Line 229: the feed, reached by a plain run or by switching the radio.
FeedRender(fo) ==
    /\ pc = "main" /\ ~ShowLogin(Cur)
    /\ (page # "feed") => (MayAct /\ screen = "shell")
    /\ Set([FeedPage(Shell(Begin(Cur), "feed"), fo, None, [status |-> "ok", ret |-> None])
              EXCEPT !.hasFile = FALSE])
    /\ pc' = "top"
    /\ ev' = "feed"

DeleteClick(p, fo, do) ==
    /\ pc = "main" /\ ~ShowLogin(Cur)
    /\ MayAct /\ screen = "shell" /\ page = "feed" /\ p \in offered
    /\ Set(FeedPage(Shell(Begin(Cur), "feed"), fo, p, do))
    /\ pc' = "top"
    /\ ev' = "delete"

\* Line 231: the upload screen (f: the uploader as the user left it).
UploadRender(f) ==
    /\ pc = "main" /\ ~ShowLogin(Cur)
    /\ (page # "upload") => (MayAct /\ screen = "shell" /\ ~f)
    /\ (f # hasFile) => (MayAct /\ screen = "shell")
    /\ Set(UploadPage([Shell(Begin(Cur), "upload") EXCEPT !.hasFile = f],
                      FALSE, [status |-> "ok", ret |-> None]))
    /\ pc' = "top"
    /\ ev' = "upload"

ShareClick(o) ==
    /\ pc = "main" /\ ~ShowLogin(Cur)
    /\ MayAct /\ screen = "shell" /\ page = "upload" /\ "share" \in buttons
    /\ Set(UploadPage(Shell(Begin(Cur), "upload"), TRUE, o))
    /\ pc' = "top"
    /\ ev' = "share"

Init ==
    /\ token = FreshSession.token
    /\ user = FreshSession.user
    /\ failed = FreshSession.failed
    /\ carrier \in Tokens \cup {None}
    /\ pc = "top"
    /\ rerun = FALSE
    /\ screen = "none"
    /\ page = "feed"
    /\ filled = FALSE
    /\ hasFile = FALSE
    /\ buttons = {}
    /\ offered = {}
    /\ posts = NoPosts
    /\ calls = <<>>
    /\ msgs = {}
    /\ crashed = FALSE
    /\ ev = "load"
    /\ u_url = <<>>
    /\ u_tr = [some |-> FALSE, s |-> <<>>]
    /\ u_cap = [some |-> FALSE, s |-> <<>>]
    /\ u_out = <<>>
    /\ u_done = FALSE

Next ==
    \/ \E c \in Tokens \cup {None} : Load(c)
    \/ \E o \in MeOutcomes : RenderTop(o)
    \/ \E f \in BOOLEAN : LoginRender(f)
    \/ \E po \in LoginOutcomes, go \in MeOutcomes : LoginClick(po, go)
    \/ \E o \in RegisterOutcomes : SignupClick(o)
    \/ LogoutClick
    \/ \E fo \in FeedOutcomes : FeedRender(fo)
    \/ \E p \in PostIds, fo \in FeedOutcomes, do \in PlainOutcomes : DeleteClick(p, fo, do)
    \/ \E f \in BOOLEAN : UploadRender(f)
    \/ \E o \in PlainOutcomes : ShareClick(o)

Spec == Init /\ [][Next]_vars

\* ------------------------------------------------ URL transform builder
\* Strings are sequences of one-character strings; a caption is a sequence
\* of Unicode code points; bytes are numbers 0..255.
MaxUrlLen == 6
MaxCaptionLen == 3

NoneStr == [some |-> FALSE, s |-> <<>>]
Some(s) == [some |-> TRUE, s |-> s]

\* Python truthiness of an optional string: None and "" are falsy.
Truthy(x) == x.some /\ x.s # <<>>

RECURSIVE Flatten(_)
Flatten(ss) == IF ss = <<>> THEN <<>> ELSE Head(ss) \o Flatten(Tail(ss))

\* text.encode('utf-8'), line 57.
Utf8Char(cp) ==
    IF cp < 128 THEN <<cp>>
    ELSE IF cp < 2048 THEN <<192 + (cp \div 64), 128 + (cp % 64)>>
    ELSE IF cp < 65536
         THEN <<224 + (cp \div 4096), 128 + ((cp \div 64) % 64), 128 + (cp % 64)>>
         ELSE <<240 + (cp \div 262144), 128 + ((cp \div 4096) % 64),
                128 + ((cp \div 64) % 64), 128 + (cp % 64)>>

Utf8Encode(text) == Flatten([i \in DOMAIN text |-> Utf8Char(text[i])])

\* base64.b64encode, line 57: the standard alphabet, '=' padding.
B64Alphabet ==
    <<"A", "B", "C", "D", "E", "F", "G", "H", "I", "J", "K", "L", "M", "N", "O", "P",
     "Q", "R", "S", "T", "U", "V", "W", "X", "Y", "Z", "a", "b", "c", "d", "e", "f",
     "g", "h", "i", "j", "k", "l", "m", "n", "o", "p", "q", "r", "s", "t", "u", "v",
     "w", "x", "y", "z", "0", "1", "2", "3", "4", "5", "6", "7", "8", "9", "+", "/">>

B64Char(n) == B64Alphabet[n + 1]

RECURSIVE B64Encode(_)
B64Encode(bs) ==
    IF bs = <<>> THEN <<>>
    ELSE IF Len(bs) = 1
         THEN <<B64Char(bs[1] \div 4), B64Char((bs[1] % 4) * 16), "=", "=">>
    ELSE IF Len(bs) = 2
         THEN <<B64Char(bs[1] \div 4), B64Char((bs[1] % 4) * 16 + (bs[2] \div 16)),
                B64Char((bs[2] % 16) * 4), "=">>
    ELSE <<B64Char(bs[1] \div 4), B64Char((bs[1] % 4) * 16 + (bs[2] \div 16)),
           B64Char((bs[2] % 16) * 4 + (bs[3] \div 64)), B64Char(bs[3] % 64)>>
             \o B64Encode(SubSeq(bs, 4, Len(bs)))

\* urllib.parse.quote(s) with its default safe='/', line 58: letters, digits
\* and "_.-~" are never quoted, '/' is safe by default, every other
\* character becomes %XX.
HexDigits == <<"0", "1", "2", "3", "4", "5", "6", "7", "8", "9", "A", "B", "C", "D", "E", "F">>

AlwaysSafe ==
    {B64Alphabet[i] : i \in 1..62} \cup {"_", ".", "-", "~"}

QuoteSafe == AlwaysSafe \cup {"/"}

\* ASCII codes of the characters quote has to escape here.
Ord(c) ==
    CASE c = "+" -> 43
      [] c = "=" -> 61
      [] c = "/" -> 47
      [] c = "%" -> 37
      [] c = "," -> 44
      [] c = ":" -> 58

QuoteChar(c) ==
    IF c \in QuoteSafe THEN <<c>>
    ELSE <<"%", HexDigits[(Ord(c) \div 16) + 1], HexDigits[(Ord(c) % 16) + 1]>>

Quote(s) == Flatten([i \in DOMAIN s |-> QuoteChar(s[i])])

\* urllib.parse.quote applied to the caption itself, as the bytes of its
\* result: a safe byte stays, any other becomes '%' and two hex digits.
IsSafeByte(b) ==
    \/ b \in 48..57 \/ b \in 65..90 \/ b \in 97..122
    \/ b \in {45, 46, 47, 95, 126}

HexCode(d) == IF d < 10 THEN 48 + d ELSE 55 + d

QuoteBytes(bs) ==
    Flatten([i \in DOMAIN bs |->
                IF IsSafeByte(bs[i]) THEN <<bs[i]>>
                ELSE <<37, HexCode(bs[i] \div 16), HexCode(bs[i] % 16)>>])

\* Lines 53-58 with the two encodings in the wrong order: quote, then base64.
encode_text_for_overlay_QuoteFirst(text) ==
    IF text = <<>> THEN <<>>
    ELSE B64Encode(QuoteBytes(Utf8Encode(text)))

\* Lines 53-58.
encode_text_for_overlay(text) ==
    IF text = <<>> THEN <<>>
    ELSE Quote(B64Encode(Utf8Encode(text)))

\* Line 63: the overlay template around the encoded caption.
OverlayPrefix == <<"l", "-", "t", "e", "x", "t", ",", "i", "e", "-">>

OverlaySuffix ==
    <<",", "l", "y", "-", "N", "2", "0", ",", "l", "x", "-", "2", "0", ",", "f", "s",
     "-", "1", "0", "0", ",", "c", "o", "-", "w", "h", "i", "t", "e", ",", "b", "g",
     "-", "0", "0", "0", "0", "0", "0", "A", "0", ",", "l", "-", "e", "n", "d">>

\* Lines 61-64 appending the overlay to the caller's transform.
EffectiveTransform_Append(tr, cap) ==
    IF Truthy(cap)
    THEN Some((IF Truthy(tr) THEN tr.s \o <<",">> ELSE <<>>)
                \o OverlayPrefix \o encode_text_for_overlay(cap.s) \o OverlaySuffix)
    ELSE tr

\* Lines 61-64: a caption replaces the caller's transform.
EffectiveTransform(tr, cap) ==
    IF Truthy(cap)
    THEN Some(OverlayPrefix \o encode_text_for_overlay(cap.s) \o OverlaySuffix)
    ELSE tr

\* str.split("/"), line 69: one more part than there are separators.
RECURSIVE Split(_, _)
Split(s, sep) ==
    IF \A i \in DOMAIN s : s[i] # sep THEN <<s>>
    ELSE LET k == CHOOSE i \in DOMAIN s :
                    s[i] = sep /\ \A j \in 1..(i - 1) : s[j] # sep
         IN  <<SubSeq(s, 1, k - 1)>> \o Split(SubSeq(s, k + 1, Len(s)), sep)

\* "/".join(parts), lines 73-74.
RECURSIVE Join(_, _)
Join(parts, sep) ==
    IF parts = <<>> THEN <<>>
    ELSE IF Len(parts) = 1 THEN parts[1]
    ELSE parts[1] \o <<sep>> \o Join(Tail(parts), sep)

\* Lines 69-75 taking file_path from parts[3:].
Splice_PathFromId(url, t) ==
    LET parts == Split(url, "/")
    IN  IF Len(parts) < 5 THEN url
        ELSE Join(SubSeq(parts, 1, 4), "/") \o <<"/", "t", "r", ":">> \o t \o <<"/">>
                \o Join(SubSeq(parts, 4, Len(parts)), "/")

\* Lines 69-75 with the guard of line 70 at 4 parts.
Splice_FourParts(url, t) ==
    LET parts == Split(url, "/")
    IN  IF Len(parts) < 4 THEN url
        ELSE Join(SubSeq(parts, 1, 4), "/") \o <<"/", "t", "r", ":">> \o t \o <<"/">>
                \o Join(SubSeq(parts, 5, Len(parts)), "/")

\* Lines 69-75.
Splice(url, t) ==
    LET parts == Split(url, "/")
    IN  IF Len(parts) < 5 THEN url
        ELSE Join(SubSeq(parts, 1, 4), "/") \o <<"/", "t", "r", ":">> \o t \o <<"/">>
                \o Join(SubSeq(parts, 5, Len(parts)), "/")

\* Lines 60-75 without the early return of lines 66-67.
create_transformed_url_NoEarlyReturn(original_url, transformation_params, caption) ==
    Splice(original_url, EffectiveTransform(transformation_params, caption).s)

\* Lines 60-75.
create_transformed_url(original_url, transformation_params, caption) ==
    LET tp == EffectiveTransform(transformation_params, caption)
    IN  IF ~Truthy(tp) THEN original_url ELSE Splice(original_url, tp.s)

\* The inputs of the calls.
UrlChars == {"/", "a"}
CaptionChars == {97, 63, 255}

SeqsUpTo(S, n) == UNION {[1..k -> S] : k \in 0..n}

Urls == SeqsUpTo(UrlChars, MaxUrlLen)

\* None, "" (line 198), and two parameter strings.
Transforms ==
    {NoneStr, Some(<<>>), Some(<<"w">>), Some(<<"w", "-", "1", "0">>)}

Captions == {NoneStr} \cup {Some(c) : c \in SeqsUpTo(CaptionChars, MaxCaptionLen)}

InitUrl ==
    /\ token = FreshSession.token
    /\ user = FreshSession.user
    /\ failed = FreshSession.failed
    /\ carrier = None
    /\ pc = "top"
    /\ rerun = FALSE
    /\ screen = "none"
    /\ page = "feed"
    /\ filled = FALSE
    /\ hasFile = FALSE
    /\ buttons = {}
    /\ offered = {}
    /\ posts = NoPosts
    /\ calls = <<>>
    /\ msgs = {}
    /\ crashed = FALSE
    /\ ev = "load"
    /\ u_url \in Urls
    /\ u_tr \in Transforms
    /\ u_cap \in Captions
    /\ u_out = <<>>
    /\ u_done = FALSE

\* One call of create_transformed_url.
BuildUrl ==
    /\ ~u_done
    /\ u_out' = create_transformed_url(u_url, u_tr, u_cap)
    /\ u_done' = TRUE
    /\ UNCHANGED <<u_url, u_tr, u_cap>>
    /\ UNCHANGED sessionVars

NextUrl == BuildUrl

SpecUrl == InitUrl /\ [][NextUrl]_vars

\* ================================================================ claims
\* Requests of the current run.
IdentityFetches(cs) == {i \in DOMAIN cs : cs[i].ep = "me"}
RenderFetches(cs) == {i \in IdentityFetches(cs) : cs[i].site = "render"}
LoginFetches(cs) == {i \in IdentityFetches(cs) : cs[i].site = "login_page"}

\* The requests the step under way issues: lines 15-48 start the run's log,
\* the main logic appends to it.
Issued ==
    IF pc = "top" THEN calls' ELSE SubSeq(calls', Len(calls) + 1, Len(calls'))

\* The first run of a load has passed lines 15-48 and nothing else.
FirstTop == ev = "top" /\ screen = "none"

\* C1: a load that starts with a token in the URL and whose render-time
\* identity fetch answers non-200 ends lines 15-48 with verificationFailed
\* set and token, user and carrier cleared; and from a failed session
\* without a token, every later step of the same load that does not log in
\* to a new token issues no identity fetch.
C1_FailedStatus ==
    (FirstTop /\ RenderFetches(calls) # {} /\ calls[1].status = "fail")
        => (failed /\ token = None /\ user = None /\ carrier = None)

C1_NoSecondFetch ==
    (failed /\ token = None /\ ev' # "load" /\ token' = None)
        => (IdentityFetches(Issued) = {} /\ failed' /\ user' = None)

C1_NonOkLoadIsTerminal == []C1_FailedStatus /\ [][C1_NoSecondFetch]_vars

\* lines 15-48 of the first run of a load have rejected the URL's token
C1_Witness ==
    /\ FirstTop /\ calls # <<>> /\ calls[1].status = "fail"
    /\ RenderFetches(calls) = {1} /\ failed /\ token = None /\ carrier = None

\* C2: when the render-time identity fetch raises a transport error, lines
\* 15-48 end with the token that was sent still in the session and in the
\* URL, user None and verificationFailed set; and while the flag is set no
\* later step of the load issues a render-time identity fetch.
C2_TransportFailureState ==
    (ev = "top" /\ RenderFetches(calls) # {} /\ calls[1].status = "exc")
        => (token # None /\ token = calls[1].tok /\ carrier = token
                /\ user = None /\ failed)

C2_NoRetry ==
    (failed /\ ev' # "load") => (RenderFetches(Issued) = {} /\ failed')

C2_TransportErrorKeepsToken == []C2_TransportFailureState /\ [][C2_NoRetry]_vars

\* the login screen shown after the identity fetch raised
C2_Witness ==
    /\ ev = "login_render" /\ calls # <<>> /\ calls[1].status = "exc"
    /\ RenderFetches(calls) = {1} /\ failed /\ token # None /\ carrier = token
    /\ user = None

\* C3: a login whose credential POST returns 200 and whose identity fetch
\* returns 200 ends, in the same step, with token and carrier equal to the
\* returned access token and user equal to the returned identity, whatever
\* the state the login screen was shown in.
C3_LoginOkAuthenticates ==
    \A i \in LoginFetches(calls) :
        (calls[i].status = "ok" /\ i > 1 /\ calls[i - 1].ep = "login"
            /\ calls[i - 1].status = "ok")
        => (token = calls[i - 1].ret /\ carrier = calls[i - 1].ret
                /\ token # None /\ user = calls[i].ret /\ user # None
                /\ calls[i].tok = token /\ ~crashed)

\* a login that succeeds after a verification of an older token failed
C3_Witness ==
    /\ ev = "login" /\ failed /\ user # None /\ token # None
    /\ LoginFetches(calls) # {}

\* Messages that report an error to the user (st.error).
ErrorMsgs ==
    {"cannot_contact", "invalid_credentials", "userinfo_failed",
     "registration_failed_detail", "registration_failed", "feed_unreachable",
     "feed_failed", "delete_unreachable", "delete_failed", "upload_unreachable",
     "upload_failed"}

\* C4: no transport exception of a request issued by the Login or the Sign
\* Up handler (the credential POST, the identity fetch that follows it, the
\* registration POST) leaves the script uncaught, and each one is reported
\* to the user by an error message of that run.  (The exception of the
\* render-time identity fetch is caught by line 46, which sets the flag and
\* shows no message.)
C4_TransportErrorsCaught ==
    /\ ~crashed
    /\ \A i \in DOMAIN calls :
            (calls[i].site = "login_page" /\ calls[i].status = "exc")
                => msgs \cap ErrorMsgs # {}

\* C5: a run whose last request is an identity fetch answered non-200,
\* issued by lines 35-48 or by the Login handler, ends with token, user and
\* carrier cleared.
C5_FailedVerificationClears ==
    (calls # <<>> /\ calls[Len(calls)].ep = "me" /\ calls[Len(calls)].status = "fail")
        => (token = None /\ user = None /\ carrier = None)

\* C6: the identity fetch of a login is issued from PendingVerification: the
\* new token set, user None and verificationFailed false, also when an
\* earlier verification of the load failed.
C6_LoginStartsPending ==
    \A i \in LoginFetches(calls) :
        calls[i].tok # None /\ calls[i].usr = None /\ calls[i].flag = FALSE

\* C7: Logout ends with token, user and carrier cleared; lines 15-48 of the
\* run that follows restore no token and issue no request, and its main
\* logic shows the login screen without issuing a request.
C7_LogoutState ==
    (ev = "logout") => (token = None /\ user = None /\ carrier = None /\ rerun)

C7_TopAfterLogout ==
    (ev = "logout" /\ ev' # "load")
        => (ev' = "top" /\ token' = None /\ user' = None /\ carrier' = None
                /\ calls' = <<>> /\ rerun')

C7_MainAfterLogout ==
    (ev = "top" /\ rerun /\ user = None /\ ev' # "load")
        => (screen' = "login" /\ ev' = "login_render" /\ calls' = <<>>
                /\ token' = token /\ user' = None)

C7_LogoutClearsSession ==
    []C7_LogoutState /\ [][C7_TopAfterLogout]_vars /\ [][C7_MainAfterLogout]_vars

\* lines 15-48 of the run that st.rerun() forces after a logout are done
C7_Witness ==
    /\ ev = "top" /\ rerun /\ screen = "shell" /\ token = None /\ user = None
    /\ carrier = None /\ calls = <<>>

\* C8: in every reachable state, a session with a user has a token.
C8_UserImpliesToken == (user # None) => (token # None)

\* the render-time identity fetch has populated the user
C8_Witness ==
    /\ ev = "top" /\ user # None /\ token # None
    /\ RenderFetches(calls) # {} /\ calls[1].status = "ok"

\* C9: the main logic of a run selects the login screen exactly when user
\* is None and the authenticated shell only with token and user set, and no
\* feed, upload or delete request is issued while user is None.
C9_SelectedScreen ==
    (pc = "main" /\ ev' # "load")
        => /\ screen' = (IF user = None THEN "login" ELSE "shell")
           /\ (screen' = "shell") => (token # None /\ user # None)
           /\ (screen' = "shell") => (page' \in {"feed", "upload"})

C9_ShellCalls ==
    \A i \in DOMAIN calls :
        (calls[i].ep \in {"feed", "upload", "delete"})
            => (calls[i].usr # None /\ calls[i].tok # None)

C9_ScreenSelection == []C9_ShellCalls /\ [][C9_SelectedScreen]_vars

\* the login screen shown to a failed session that still holds its token
C9_Witness ==
    /\ ev = "login_render" /\ screen = "login" /\ token # None /\ user = None
    /\ failed

\* C10: every DELETE of a run is for a post whose is_owner is true in the
\* feed that run fetched, and a delete button is rendered for such posts
\* only; a post without is_owner counts as not owned.
C10_DeleteOnlyOwned ==
    /\ \A i \in DOMAIN calls :
            (calls[i].ep = "delete")
                => (calls[i].arg \in DOMAIN posts /\ posts[calls[i].arg] = "true")
    /\ \A p \in offered : p \in DOMAIN posts /\ posts[p] = "true"

\* a delete was issued while the same feed holds a post that is not owned
C10_Witness ==
    /\ ev = "delete"
    /\ \E i \in DOMAIN calls : calls[i].ep = "delete"
    /\ \E p \in DOMAIN posts : posts[p] \in {"false", "missing"}

\* C11: the run that st.rerun() forces after an upload POST returned 200
\* presents the feed and issues GET /feed.  (A forced run with the radio on
\* the upload screen is the run that follows a successful upload: the other
\* handlers that rerun leave the radio on the feed or the user None.)
C11_AfterUpload ==
    (pc = "main" /\ rerun /\ user # None /\ page = "upload" /\ ev' # "load")
        => (ev' = "feed" /\ page' = "feed"
                /\ \E i \in DOMAIN Issued : Issued[i].ep = "feed")

C11_UploadReturnsToFeed == [][C11_AfterUpload]_vars

\* C12: the Sign Up handler leaves token, user, verificationFailed and the
\* carrier as they were, whatever the registration POST answers, and the
\* session is still without a user after it.
C12_SignupStep ==
    (ev' = "signup")
        => (token' = token /\ user' = user /\ failed' = failed
                /\ carrier' = carrier /\ user' = None /\ ~rerun'
                /\ Len(Issued) = 1 /\ Issued[1].ep = "register")

C12_SignupKeepsSession == [][C12_SignupStep]_vars

\* a registration answered 201 in a failed session that kept its token
C12_Witness ==
    /\ ev = "signup" /\ "account_created" \in msgs /\ token # None
    /\ user = None /\ failed

\* C13: a Login whose credential POST answers a status other than 200
\* leaves token, user, verificationFailed and the carrier as they were and
\* issues no identity fetch; an Unauthenticated session stays so.
C13_RejectedLoginStep ==
    (ev' = "login" /\ Issued # <<>> /\ Issued[1].ep = "login"
            /\ Issued[1].status = "fail")
        => (token' = token /\ user' = user /\ failed' = failed
                /\ carrier' = carrier /\ IdentityFetches(Issued) = {}
                /\ Len(Issued) = 1 /\ "invalid_credentials" \in msgs'
                /\ (token = None => token' = None))

C13_RejectedLoginKeepsSession == [][C13_RejectedLoginStep]_vars

\* rejected credentials in a failed session that kept its token
C13_Witness ==
    /\ ev = "login" /\ "invalid_credentials" \in msgs /\ token # None
    /\ user = None /\ carrier = token

\* C20: once lines 15-48 of the first run of a load are done, the session's
\* token and the URL's token agree in every state: both absent, or equal.
C20_TokenMatchesCarrier == (ev # "load") => (token = carrier)

\* a login whose identity fetch was refused: the token is set in both places
C20_Witness ==
    /\ ev = "login" /\ "userinfo_failed" \in msgs /\ token # None
    /\ carrier = token /\ user = None

\* ------------------------------------------------- claims on the builder
\* The '/'-separated segments of a string, counted without splitting it.
Slashes(s) == {i \in DOMAIN s : s[i] = "/"}
NumSegments(s) == Cardinality(Slashes(s)) + 1

\* Position of the fourth '/' of a string that has one.
FourthSlash(s) ==
    CHOOSE k \in Slashes(s) : Cardinality({i \in Slashes(s) : i <= k}) = 4

\* What follows the fourth '/'.
AfterFourthSlash(s) == SubSeq(s, FourthSlash(s) + 1, Len(s))

StartsWith(s, pre) == Len(s) >= Len(pre) /\ SubSeq(s, 1, Len(pre)) = pre

\* urllib.parse.unquote on the characters quote can produce here.
HexVal(c) == (CHOOSE i \in DOMAIN HexDigits : HexDigits[i] = c) - 1
IsHex(c) == \E i \in DOMAIN HexDigits : HexDigits[i] = c
Escaped == {"+", "=", "/", "%", ",", ":"}

RECURSIVE Unquote(_)
Unquote(s) ==
    IF s = <<>> THEN <<>>
    ELSE IF s[1] = "%" /\ Len(s) >= 3 /\ IsHex(s[2]) /\ IsHex(s[3])
              /\ \E c \in Escaped : Ord(c) = 16 * HexVal(s[2]) + HexVal(s[3])
         THEN <<CHOOSE c \in Escaped : Ord(c) = 16 * HexVal(s[2]) + HexVal(s[3])>>
                \o Unquote(SubSeq(s, 4, Len(s)))
         ELSE <<s[1]>> \o Unquote(Tail(s))

\* base64.b64decode.
B64Index(c) == (CHOOSE i \in DOMAIN B64Alphabet : B64Alphabet[i] = c) - 1
IsB64(c) == \E i \in DOMAIN B64Alphabet : B64Alphabet[i] = c

RECURSIVE B64Decode(_)
B64Decode(s) ==
    IF Len(s) < 4 \/ ~IsB64(s[1]) \/ ~IsB64(s[2]) THEN <<>>
    ELSE LET a == B64Index(s[1])
             b == B64Index(s[2])
         IN  IF s[3] = "=" \/ ~IsB64(s[3]) THEN <<a * 4 + (b \div 16)>>
             ELSE LET c == B64Index(s[3])
                  IN  IF s[4] = "=" \/ ~IsB64(s[4])
                      THEN <<a * 4 + (b \div 16), (b % 16) * 16 + (c \div 4)>>
                      ELSE <<a * 4 + (b \div 16), (b % 16) * 16 + (c \div 4),
                             (c % 4) * 64 + B64Index(s[4])>>
                                \o B64Decode(SubSeq(s, 5, Len(s)))

\* The caption token of an overlay transform: what stands between
\* "tr:l-text,ie-" and the next ','.
TrPrefix == <<"t", "r", ":">> \o OverlayPrefix

TokenOf(rest) ==
    LET body == SubSeq(rest, Len(TrPrefix) + 1, Len(rest))
        stop == CHOOSE i \in DOMAIN body :
                    body[i] = "," /\ \A j \in 1..(i - 1) : body[j] # ","
    IN  SubSeq(body, 1, stop - 1)

ExampleUrl ==
    <<"h", "t", "t", "p", "s", ":", "/", "/", "i", "k", ".", "i", "o",
     "/", "a", "b", "c", "/", "d", "/", "e", ".", "j", "p", "g">>

ExampleResult ==
    <<"h", "t", "t", "p", "s", ":", "/", "/", "i", "k", ".", "i", "o",
     "/", "a", "b", "c", "/", "t", "r", ":", "w", "-", "1", "0", "/",
     "d", "/", "e", ".", "j", "p", "g">>

\* C14: for a url of at least 5 segments, a non-empty transform and an
\* empty caption, the result is the url with "tr:" + transform + "/"
\* inserted right after its fourth '/', i.e. the first 4 segments, then
\* "/tr:" + transform + "/", then the remaining segments; and the example
\* buildUrl("https://ik.io/abc/d/e.jpg", "w-10", None) gives
\* "https://ik.io/abc/tr:w-10/d/e.jpg".
C14_SpliceAfterFourSegments ==
    /\ (u_done /\ NumSegments(u_url) >= 5 /\ Truthy(u_tr) /\ ~Truthy(u_cap))
        => u_out = SubSeq(u_url, 1, FourthSlash(u_url)) \o <<"t", "r", ":">>
                        \o u_tr.s \o <<"/">> \o AfterFourthSlash(u_url)
    /\ create_transformed_url(ExampleUrl, Some(<<"w", "-", "1", "0">>), NoneStr)
            = ExampleResult

\* a url with five segments, some empty, rewritten with a transform
C14_Witness ==
    /\ u_done /\ NumSegments(u_url) = 5 /\ u_tr = Some(<<"w", "-", "1", "0">>)
    /\ u_cap = NoneStr /\ u_url[1] = "a" /\ u_url[Len(u_url)] = "a"
    /\ Len(u_out) = Len(u_url) + 8

\* C15: for a url of fewer than 5 segments, the empty url included, and any
\* transform, the call without a caption returns the url unchanged.
C15_ShortUrlUnchanged ==
    (u_done /\ NumSegments(u_url) < 5 /\ ~u_cap.some) => u_out = u_url

\* a url of exactly 4 segments with a transform to apply
C15_Witness ==
    /\ u_done /\ NumSegments(u_url) = 4 /\ Truthy(u_tr) /\ ~u_cap.some
    /\ u_out = u_url

\* C16: when transform and caption are both empty (None or ""), the url is
\* returned unchanged, whatever its shape; this is the call feed_page makes
\* for an image without a caption (transform "").
C16_NothingToApply ==
    (u_done /\ ~Truthy(u_tr) /\ ~Truthy(u_cap)) => u_out = u_url

\* the image call of line 198 with an empty caption, on a url of CDN shape
C16_Witness ==
    /\ u_done /\ u_tr = Some(<<>>) /\ u_cap = Some(<<>>)
    /\ NumSegments(u_url) >= 5 /\ u_out = u_url

\* C17: for a non-empty caption, URL-decoding and then base64-decoding the
\* encoded caption gives back the caption's UTF-8 bytes, and when the url is
\* rewritten the token found in the result's transform segment, after
\* "tr:l-text,ie-", decodes to those bytes.
C17_CaptionRoundTrip ==
    (u_done /\ Truthy(u_cap))
        => /\ B64Decode(Unquote(encode_text_for_overlay(u_cap.s)))
                    = Utf8Encode(u_cap.s)
           /\ (NumSegments(u_url) >= 5)
                => /\ StartsWith(AfterFourthSlash(u_out), TrPrefix)
                   /\ B64Decode(Unquote(TokenOf(AfterFourthSlash(u_out))))
                            = Utf8Encode(u_cap.s)

\* a caption with a two-byte character and padding in its base64 text
C17_Witness ==
    /\ u_done /\ u_cap = Some(<<255>>) /\ NumSegments(u_url) >= 5
    /\ \E i \in DOMAIN u_out : u_out[i] = "%"

\* C18: the caption token embedded in a rewritten url holds none of the raw
\* characters '+', '/' and '=', so the rewritten url has exactly one segment
\* more than the original.
C18_TokenUrlSafe ==
    (u_done /\ Truthy(u_cap) /\ NumSegments(u_url) >= 5)
        => /\ \A i \in DOMAIN encode_text_for_overlay(u_cap.s) :
                    encode_text_for_overlay(u_cap.s)[i] \notin {"+", "/", "="}
           /\ NumSegments(u_out) = NumSegments(u_url) + 1

\* C19: with a non-empty caption the result does not depend on the
\* transform argument, and a rewritten url carries the caption overlay
\* right after "tr:".
C19_CaptionOverridesTransform ==
    (u_done /\ Truthy(u_cap))
        => /\ \A t \in Transforms :
                    create_transformed_url(u_url, t, u_cap) = u_out
           /\ (NumSegments(u_url) >= 5)
                => StartsWith(AfterFourthSlash(u_out), TrPrefix)

\* a captioned call that also passes a transform
C19_Witness ==
    /\ u_done /\ Truthy(u_cap) /\ u_tr = Some(<<"w">>)
    /\ NumSegments(u_url) >= 5 /\ u_out # u_url

====
